---- MODULE Spec2Model ----
(***************************************************************************)
(* Model of the lazy cached attribute `cachedproperty` (src/utils.py), of  *)
(* the `Property` descriptor it derives from (src/abstract.py), and of the *)
(* composition adapters ComposedContainer, Keyed, Mapped, Indexed and      *)
(* Arrayed (src/py/abstract.py); of rotate_array (src/utils.py), of the    *)
(* datastruct transform (src/py/datastruct.py), of MultiEnum and of        *)
(* _disabled_descriptor (src/py/abstract.py, src/abstract.py).             *)
(*                                                                         *)
(* Programs under analysis:                                                *)
(*  - a parent class P declaring the cached properties `x` and `y`, a      *)
(*    subclass S of P redeclaring `x`, instances of S, and threads that    *)
(*    read, assign and delete those attributes (Spec, SpecInherit,         *)
(*    SpecRace);                                                           *)
(*  - an owner object exposing its list through an Arrayed adapter, or its *)
(*    dict through a Mapped adapter, which is read and written through the *)
(*    adapter while the owner mutates the container directly (SpecAdapter).*)
(*  - threads whose compute functions read other cached properties       *)
(*    (SpecNested, with fair scheduling: FairNested);                      *)
(*  - calls of rotate_array on a list (SpecRotate);                        *)
(*  - class statements that run the datastruct transform (SpecStruct);     *)
(*  - the class statement of a MultiEnum and threads looking members up by *)
(*    value (SpecEnum);                                                    *)
(*  - threads entering and leaving `with _disabled_descriptor(cls, attr)`  *)
(*    (SpecDisabled).                                                      *)
(***************************************************************************)
EXTENDS Integers, Sequences, FiniteSets, TLC

(* ------------------------------ bounds --------------------------------- *)
NumThreads == 2
NumInstances == 2
MaxOps == 3

Threads == 1..NumThreads
Instances == 1..NumInstances

(* ----------------------- the declared attributes ----------------------- *)
\* Px: P.x   Py: P.y   Sx: S.x (redeclared on the subclass)
Attrs == {"Px", "Py", "Sx"}
Classes == {"P", "S"}

DeclCls(a) == IF a = "Sx" THEN "S" ELSE "P"
AttrName(a) == IF a = "Py" THEN "y" ELSE "x"

None == "None"
Fn == "fn"

\* the compute function handed to the decorator, and the deleter (if any)
DeclFget(a) == Fn
DeclFdel(a) == IF a = "Py" THEN None ELSE Fn

SlotIds == {"x", "y", "_x", "_y"}

\* `__missing` sentinel of __get__: the slot holds nothing
Unset == <<"missing", 0>>

VARIABLES
    layout,   \* class layout: storage kind of P and S, slot members of P
    prop,     \* per descriptor: _fget, _fset, _fdel, _name, _getattr
    lock,     \* per lock: owner thread (0 = free) and recursion count
    slot,     \* per instance and slot identifier: cached value or Unset
    calls,    \* per instance and descriptor: invocations of fget so far
    pc,       \* per thread: position inside the running operation
    op,       \* per thread: the operation it is executing
    last,     \* the operation that finished last, and its outcome
    nops      \* operations started so far, by all threads

\* The composition adapters (src/py/abstract.py): an owner object holding one
\* container, exposed through an adapter that reads `_object_value_`.
VARIABLES
    adapter,  \* class of the adapter the program built ("none": no adapter)
    seq,      \* contents of the list behind an Arrayed adapter
    map,      \* contents of the dict behind a Mapped adapter, as the
              \* sequence of its <<key, value>> items in insertion order
    view,     \* the view object the program holds (keys(), values(), items())
    iter,     \* the list iterator of a running extend() over the adapter
    res       \* the step taken last on the adapter or container: its outcome

VARIABLES
    rot,      \* the latest call of rotate_array: its argument and outcome
    struct,   \* the datastruct transform: its closure and the latest class
              \* statement that ran it
    menum,    \* a MultiEnum class: its members, its alias map, the value
              \* lookups running on it
    desc,     \* a class attribute and the _disabled_descriptor uses on it
    nest      \* reads of lazy attributes whose compute functions read other
              \* lazy attributes: the program and every thread's call stack

propertyVars == <<layout, prop, lock, slot, calls, pc, op, last, nops>>
adapterVars == <<adapter, seq, map, view, iter, res>>

\* what a step on a lazy attribute, and a step on an adapter, leave alone
outsideProperty == <<adapterVars, rot, struct, menum, desc, nest>>
outsideAdapter == <<propertyVars, rot, struct, menum, desc, nest>>
outsideRotate == <<propertyVars, adapterVars, struct, menum, desc, nest>>
outsideStruct == <<propertyVars, adapterVars, rot, menum, desc, nest>>
outsideEnum == <<propertyVars, adapterVars, rot, struct, desc, nest>>
outsideDisabled == <<propertyVars, adapterVars, rot, struct, menum, nest>>
outsideNested == <<adapterVars, rot, struct, menum, desc>>

vars == <<propertyVars, adapterVars, rot, struct, menum, desc, nest>>

\* no view object, no running extend(), no step taken yet
\*   iterated, first   whether the view was iterated, and what its first
\*                     iteration yielded
NoView == [kind |-> "none", first |-> <<>>, iterated |-> FALSE]
\*   hint   the length of the argument when extend() began
NoIter == [active |-> FALSE, idx |-> 0, op |-> "", hint |-> 0]
\*   self      the call returned the adapter object itself
\*   selfarg   the argument of the call was the adapter object itself
\*   iterated, prior   of a dict adapter: whether iter(adapter) was run
\*                     before this step, and what the latest such run yielded
NoStep == [op |-> "none", args |-> <<>>, kind |-> "none", val |-> <<>>,
           exc |-> "", self |-> FALSE, selfarg |-> FALSE,
           iterated |-> FALSE, prior |-> <<>>]

\* the program builds no adapter
NoAdapter ==
    /\ adapter = "none"
    /\ seq = <<>>
    /\ map = <<>>
    /\ view = NoView
    /\ iter = NoIter
    /\ res = NoStep

\* the program has not called rotate_array
\*   arr       contents of the list object passed as arr
\*   before    its contents when the call began
\*   returned  the object the call returned: "arr", the argument itself, or
\*             "new", another list; value: the contents of that object
NoCall == [arr |-> <<>>, before |-> <<>>, npos |-> 0, returned |-> "none",
           value |-> <<>>]
NoRotate == rot = NoCall

\* the datastruct transform was made and no class statement has run it
\*   closure   "bound": the variables field_attr, field_type, transformer of
\*             _update_transform hold their values; "deleted": they were
\*             deleted
\*   made      a class whose metaclass is a DataStructType exists
\*   via, fields, parent, predeclared   the latest class statement
\*   kind, exc, slots                   its outcome: the class or the exception
NoSlots == <<"no __slots__">>
NoClass == [via |-> "none", fields |-> <<>>, parent |-> "object",
            predeclared |-> FALSE, kind |-> "none", exc |-> "", slots |-> NoSlots]
NoStruct == struct = [closure |-> "bound", made |-> FALSE, last |-> NoClass]

\* the class statement of a MultiEnum has begun: no member yet
\*   phase     "creating", "created", or "rejected" (the class statement raised)
\*   members   the members in definition order: _value_ and _values_ of each
\*   marker    the key "0_SETUP" is in _alias_map_
\*   alias     _alias_map_ without the marker: for every constant, Absent,
\*             NoMember (None) or the index of a member
\*   look      for every thread, where it is in a value lookup and the constant
\*   last      the outcome of the lookup that ended last; missed: it went
\*             through _missing_
\*   nlook     the lookups begun
Absent == 0 - 1
NoMember == 0
NoLookup == [t |-> 0, c |-> 0, kind |-> "none", member |-> NoMember, exc |-> "",
             missed |-> FALSE]
NoEnum ==
    menum = [phase |-> "creating", members |-> <<>>, marker |-> FALSE,
             alias |-> <<>>, look |-> [t \in Threads |-> [pc |-> "idle", c |-> 0]],
             last |-> NoLookup, nlook |-> 0]

\* no _disabled_descriptor was made
\*   attr   the value of the attribute of the class: Original, the descriptor
\*          it held before any use, or Disabled, the None a use placed
\*   use    for every thread, the _disabled_descriptor object it made: where
\*          the thread is in the with statement, the object's value
\*          attribute (NoValue: not set) and whether its _lock is held
\*   uses   the with statements begun
Original == "descriptor"
Disabled == "None"
NoValue == "unset"
NoUse == [pc |-> "idle", value |-> NoValue, locked |-> FALSE]
NoDisabled ==
    desc = [attr |-> Original, use |-> [t \in Threads |-> NoUse], uses |-> 0]

\* no compute function reads a lazy attribute
\*   program   which compute functions read which attribute (see Reads)
\*   stack     for every thread, the frames of __get__ it is in, outermost
\*             first: instance, attribute and position of each
NoNested ==
    nest = [program |-> "independent", stack |-> [t \in Threads |-> <<>>]]

(* ----------------------------- pure helpers ---------------------------- *)
to_slot_name_fixed(name) == "_x"
to_slot_name(name) == "_" \o name

managed_dict_type(c) == layout.kind[c] = "dict"

\* isinstance(getattr(cls, name, None), types.MemberDescriptorType):
\* S inherits the slot members of P and declares none of its own
HasMember(c, name) == layout.kind["P"] = "slots" /\ name \in layout.members

\* threading.RLock() created per descriptor object
LockOfShared(a) == "Px"
LockOf(a) == a

LockIds == Attrs

\* cachedproperty.__init__: fset is always None, _getattr is not assigned.
\* `given` remembers the name= keyword of the declaration, `setup` how the
\* call of __set_name__ ended: "no" (not called), "ok" (it returned) or
\* "TypeError" (it raised).
CachedPropertyInitWithSetter(fget, fdel, name) ==
    [fget |-> fget, fset |-> Fn, fdel |-> fdel, name |-> name,
     getattr |-> "unset", given |-> name,
     setup |-> "no"]
CachedPropertyInit(fget, fdel, name) ==
    [fget |-> fget, fset |-> None, fdel |-> fdel, name |-> name,
     getattr |-> "unset", given |-> name,
     setup |-> "no"]

NoOp == [kind |-> "none", inst |-> 0, attr |-> ""]
Op(kind, i, a) == [kind |-> kind, inst |-> i, attr |-> a]

\* Outcome of an operation.
\*   kind, val     "value": it returned val;  "raise": it raised exc
\*   origin        "user": the exception was raised by a user-supplied
\*                 function and passed on unchanged; "descriptor": the
\*                 exception was created by the descriptor itself
\*   path          of a read: "fast" (first look found the value), "recheck"
\*                 (found under the lock), "computed" (fget was called)
\*   held          of a read: owner of the attribute's lock at the first look
\*   fdel, fdelArg of a delete: what the user's deleter did ("" = it was not
\*                 called) and the argument it was called with
\*   old           of a delete: content of the slot before the operation
NoResult == [op |-> NoOp, kind |-> "none", val |-> Unset, exc |-> "",
             origin |-> "", path |-> "", held |-> 0,
             fdel |-> "", fdelArg |-> <<"", 0>>, old |-> Unset]

Returned(v) == [NoResult EXCEPT !.kind = "value", !.val = v]
Raised(e, origin) == [NoResult EXCEPT !.kind = "raise", !.exc = e, !.origin = origin]

Layouts ==
    { [kind |-> [P |-> "dict", S |-> "dict"], members |-> {}] }
    \cup
    { [kind |-> [P |-> "slots", S |-> k], members |-> m] :
          k \in {"dict", "slots"}, m \in {{"_x", "_y"}, {"_x"}} }

\* name= keyword given at declaration ('' when omitted)
DeclNames == {f \in [Attrs -> {"", "_y"}] : f["Px"] = "" /\ f["Sx"] = ""}

Init ==
    /\ layout \in Layouts
    /\ \E names \in DeclNames :
          prop = [a \in Attrs |-> CachedPropertyInit(DeclFget(a), DeclFdel(a), names[a])]
    /\ lock = [l \in LockIds |-> [owner |-> 0, count |-> 0]]
    /\ slot = [i \in Instances |-> [s \in SlotIds |-> Unset]]
    /\ calls = [i \in Instances |-> [a \in Attrs |-> 0]]
    /\ pc = [t \in Threads |-> "idle"]
    /\ op = [t \in Threads |-> NoOp]
    /\ last = NoResult
    /\ nops = 0
    /\ NoAdapter
    /\ NoRotate
    /\ NoStruct
    /\ NoEnum
    /\ NoDisabled
    /\ NoNested

(* --------------------------- __set_name__ ------------------------------ *)
\* cachedproperty.__set_name__(cls, name): the descriptor after the call.
\* On a slotted owner the TypeError is raised after _name was assigned.
set_name(p, c, name) ==
    IF ~managed_dict_type(c)
    THEN LET nm == IF p.name = "" THEN to_slot_name(name) ELSE p.name
         IN  IF ~HasMember(c, nm)
             THEN [p EXCEPT !.name = nm, !.setup = "TypeError"]
             ELSE [p EXCEPT !.name = nm, !.getattr = "builtin", !.setup = "ok"]
    ELSE IF p.name = ""
         THEN [p EXCEPT !.name = name, !.getattr = "dict", !.setup = "ok"]
         ELSE [p EXCEPT !.setup = "ok"]

\* type.__new__ calls __set_name__ of a descriptor found in the class body;
\* a descriptor attached to the class afterwards never gets the call
SetName(a) ==
    /\ prop[a].getattr = "unset"
    /\ prop' = [prop EXCEPT ![a] = set_name(prop[a], DeclCls(a), AttrName(a))]
    /\ prop' # prop
    /\ UNCHANGED <<layout, lock, slot, calls, pc, op, last, nops>>
    /\ UNCHANGED outsideProperty

(* ------------------------------- locks --------------------------------- *)
CanAcquireAlways(l, t) == TRUE
CanAcquire(l, t) == lock[l].owner \in {0, t}

Acquired(lk, l, t) == [lk EXCEPT ![l] = [owner |-> t, count |-> @.count + 1]]

\* leaving the `with self._lock:` block, normally or by an exception
NotReleased(lk, l) == lk
Released(lk, l) ==
    [lk EXCEPT ![l] = IF @.count = 1 THEN [owner |-> 0, count |-> 0]
                      ELSE [owner |-> @.owner, count |-> @.count - 1]]

(* --------------------------- slot access ------------------------------- *)
\* reading self._getattr raises AttributeError while it was never assigned
ConfiguredAlways(p) == TRUE
Configured(p) == p.getattr # "unset"

\* self._getattr(inst, self._name, __missing)
SlotOf(i, a) == IF prop[a].name \in SlotIds THEN slot[i][prop[a].name] ELSE Unset

\* the first look at the slot, outside the lock (line 398)
FirstLookNone(i, a) == Unset
FirstLook(i, a) == SlotOf(i, a)

\* the second look, taken while holding the lock (line 407)
SecondLookSkipped(i, a) == Unset
SecondLook(i, a) == SlotOf(i, a)

\* self._setattr(inst, self._name, value)
Stored(i, a, v) ==
    IF prop[a].name \in SlotIds THEN [slot EXCEPT ![i][prop[a].name] = v] ELSE slot

\* thread t starts an operation
Begin(t) ==
    /\ pc[t] = "idle"
    /\ nops < MaxOps
    /\ nops' = nops + 1

\* thread t leaves operation o with outcome r
Finish(t, o, r) ==
    /\ last' = [r EXCEPT !.op = o]
    /\ pc' = [pc EXCEPT ![t] = "idle"]
    /\ op' = [op EXCEPT ![t] = NoOp]

(* ------------------------ cachedproperty.__get__ ----------------------- *)
\* lines 393-404: look at the slot without the lock
Get(t, i, a) ==
    /\ Begin(t)
    /\ IF ~Configured(prop[a])
       THEN Finish(t, Op("read", i, a), Raised("RuntimeError", "descriptor"))
       ELSE IF FirstLook(i, a) # Unset
       THEN Finish(t, Op("read", i, a),
                   [Returned(FirstLook(i, a)) EXCEPT
                       !.path = "fast", !.held = lock[LockOf(a)].owner])
       ELSE /\ pc' = [pc EXCEPT ![t] = "await"]
            /\ op' = [op EXCEPT ![t] = Op("read", i, a)]
            /\ last' = last
    /\ UNCHANGED <<layout, prop, lock, slot, calls>>
    /\ UNCHANGED outsideProperty

\* line 405: `with self._lock:` blocks until the lock can be taken
Acquire(t) ==
    /\ pc[t] = "await"
    /\ CanAcquire(LockOf(op[t].attr), t)
    /\ lock' = Acquired(lock, LockOf(op[t].attr), t)
    /\ pc' = [pc EXCEPT ![t] = "locked"]
    /\ UNCHANGED <<layout, prop, slot, calls, op, last, nops>>
    /\ UNCHANGED outsideProperty

\* the value the n-th invocation of the compute function of a returns
Computed(a, n) == <<a, n>>

\* lines 407-414 with the store moved before the call of fget
LockedStoresEarly(t) ==
    LET i == op[t].inst
        a == op[t].attr
    IN
    /\ pc[t] = "locked"
    /\ IF SecondLook(i, a) # Unset
       THEN /\ Finish(t, op[t], [Returned(SecondLook(i, a)) EXCEPT !.path = "recheck"])
            /\ lock' = Released(lock, LockOf(a))
            /\ calls' = calls
            /\ slot' = slot
       ELSE IF prop[a].fget = None
       THEN /\ Finish(t, op[t], Raised("TypeError", "descriptor"))
            /\ lock' = Released(lock, LockOf(a))
            /\ calls' = calls
            /\ slot' = slot
       ELSE /\ calls' = [calls EXCEPT ![i][a] = @ + 1]
            /\ slot' = Stored(i, a, Computed(a, calls[i][a] + 1))
            /\ pc' = [pc EXCEPT ![t] = "fget"]
            /\ UNCHANGED <<op, last, lock>>
    /\ UNCHANGED <<layout, prop, nops>>
    /\ UNCHANGED outsideProperty

\* lines 407-414: look again; if still missing, call fget
Locked(t) ==
    LET i == op[t].inst
        a == op[t].attr
    IN
    /\ pc[t] = "locked"
    /\ IF SecondLook(i, a) # Unset
       THEN /\ Finish(t, op[t], [Returned(SecondLook(i, a)) EXCEPT !.path = "recheck"])
            /\ lock' = Released(lock, LockOf(a))
            /\ calls' = calls
       ELSE IF prop[a].fget = None
       THEN /\ Finish(t, op[t], Raised("TypeError", "descriptor"))
            /\ lock' = Released(lock, LockOf(a))
            /\ calls' = calls
       ELSE /\ calls' = [calls EXCEPT ![i][a] = @ + 1]
            /\ pc' = [pc EXCEPT ![t] = "fget"]
            /\ UNCHANGED <<op, last, lock>>
    /\ UNCHANGED <<layout, prop, slot, nops>>
    /\ UNCHANGED outsideProperty

\* lines 410, 415-416: fget returned; store, leave the `with` block, return.
\* While pc = "fget" the compute function is running; it may never return.
FgetReturns(t) ==
    LET i == op[t].inst
        a == op[t].attr
        v == Computed(a, calls[i][a])
    IN
    /\ pc[t] = "fget"
    /\ slot' = Stored(i, a, v)
    /\ lock' = Released(lock, LockOf(a))
    /\ Finish(t, op[t], [Returned(v) EXCEPT !.path = "computed"])
    /\ UNCHANGED <<layout, prop, calls, nops>>
    /\ UNCHANGED outsideProperty

UserExceptions == {"TypeError", "ValueError"}

\* lines 410-414: fget raised; the exception leaves the `with` block
FgetRaises(t, e) ==
    /\ pc[t] = "fget"
    /\ lock' = Released(lock, LockOf(op[t].attr))
    /\ Finish(t, op[t], [Raised(e, "user") EXCEPT !.path = "computed"])
    /\ UNCHANGED <<layout, prop, slot, calls, nops>>
    /\ UNCHANGED outsideProperty

(* ------------------- Property.__set__ / setter ------------------------- *)
Assigned == <<"assigned", 0>>

\* abstract.py 407-413: self._fset(inst, value); calling None is a TypeError,
\* which is replaced by AttributeError
SetAttr(t, i, a) ==
    /\ Begin(t)
    /\ IF prop[a].fset = None
       THEN /\ Finish(t, Op("set", i, a), Raised("AttributeError", "descriptor"))
            /\ slot' = slot
       ELSE /\ Finish(t, Op("set", i, a), Returned(Unset))
            /\ slot' = Stored(i, a, Assigned)
    /\ UNCHANGED <<layout, prop, lock, calls>>
    /\ UNCHANGED outsideProperty

\* utils.py 427-428: cachedproperty.setter always raises
RegisterSetter(t, a) ==
    /\ Begin(t)
    /\ Finish(t, Op("setter", 0, a), Raised("NotImplementedError", "descriptor"))
    /\ UNCHANGED <<layout, prop, lock, slot, calls>>
    /\ UNCHANGED outsideProperty

(* ------------------------ Property.__delete__ -------------------------- *)
\* the argument self._fdel is called with (abstract.py 417)
FdelArgOldValue(i, a) == SlotOf(i, a)
FdelArg(i, a) == <<"inst", i>>

\* what the user's deleter does when it is called: it clears the slot, it
\* leaves the slot alone, or it raises
FdelBehaviours == {"clear", "keep", "TypeError", "ValueError"}

\* the slots after the call self._fdel(inst) of a deleter that behaves as b;
\* __delete__ itself does not touch the slot
AfterFdelReset(i, a, b) == Stored(i, a, Unset)
AfterFdel(i, a, b) == IF b = "clear" THEN Stored(i, a, Unset) ELSE slot

\* abstract.py 415-419: self._fdel(inst); a TypeError (from calling None or
\* from inside the deleter) is replaced by AttributeError
DeleteAttr(t, i, a, b) ==
    /\ Begin(t)
    /\ IF prop[a].fdel = None
       THEN /\ Finish(t, Op("delete", i, a),
                  [Raised("AttributeError", "descriptor") EXCEPT !.old = SlotOf(i, a)])
            /\ slot' = slot
       ELSE /\ slot' = AfterFdel(i, a, b)
            /\ Finish(t, Op("delete", i, a),
                  [(CASE b = "TypeError" -> Raised("AttributeError", "descriptor")
                      [] b = "ValueError" -> Raised("ValueError", "user")
                      [] OTHER -> Returned(Unset))
                   EXCEPT !.fdel = b, !.fdelArg = FdelArg(i, a), !.old = SlotOf(i, a)])
    /\ UNCHANGED <<layout, prop, lock, calls>>
    /\ UNCHANGED outsideProperty

(* ------------------------------ system --------------------------------- *)
\* The program whose subclass S inherits x and y without redeclaring them:
\* threads read, assign and delete the attributes P.x and P.y of instances.
ParentAttrs == {"Px", "Py"}

Next ==
    \/ \E a \in ParentAttrs : SetName(a)
    \/ \E t \in Threads, i \in Instances, a \in ParentAttrs : Get(t, i, a)
    \/ \E t \in Threads : Acquire(t)
    \/ \E t \in Threads : Locked(t)
    \/ \E t \in Threads : FgetReturns(t)
    \/ \E t \in Threads, e \in UserExceptions : FgetRaises(t, e)
    \/ \E t \in Threads, i \in Instances, a \in ParentAttrs : SetAttr(t, i, a)
    \/ \E t \in Threads, a \in ParentAttrs : RegisterSetter(t, a)
    \/ \E t \in Threads, i \in Instances, a \in ParentAttrs, b \in FdelBehaviours :
          DeleteAttr(t, i, a, b)

Spec == Init /\ [][Next]_vars

\* The program whose subclass S redeclares x: threads read P.x, P.y and S.x
\* of instances of S (P.x through super() or P.x.__get__).
NextInherit ==
    \/ \E a \in Attrs : SetName(a)
    \/ \E t \in Threads, i \in Instances, a \in Attrs : Get(t, i, a)
    \/ \E t \in Threads : Acquire(t)
    \/ \E t \in Threads : Locked(t)
    \/ \E t \in Threads : FgetReturns(t)

SpecInherit == Init /\ [][NextInherit]_vars

TypeOK ==
    /\ pc \in [Threads -> {"idle", "await", "locked", "fget"}]
    /\ \A l \in LockIds : lock[l].owner \in Threads \cup {0}
    /\ nops \in 0..MaxOps

(* ----------------- K readers of one attribute of one instance ---------- *)
\* Every descriptor has been set up by the creation of its class.
InitRace ==
    /\ layout \in Layouts
    /\ \E names \in DeclNames :
          prop = [a \in Attrs |->
                    set_name(CachedPropertyInit(DeclFget(a), DeclFdel(a), names[a]),
                             DeclCls(a), AttrName(a))]
    /\ lock = [l \in LockIds |-> [owner |-> 0, count |-> 0]]
    /\ slot = [i \in Instances |-> [s \in SlotIds |-> Unset]]
    /\ calls = [i \in Instances |-> [a \in Attrs |-> 0]]
    /\ pc = [t \in Threads |-> "idle"]
    /\ op = [t \in Threads |-> NoOp]
    /\ last = NoResult
    /\ nops = 0
    /\ NoAdapter
    /\ NoRotate
    /\ NoStruct
    /\ NoEnum
    /\ NoDisabled
    /\ NoNested

\* all reads of a behaviour are reads of the attribute and instance that the
\* first read chose
RaceTarget(i, a) ==
    \/ nops = 0
    \/ last.op = Op("read", i, a)
    \/ \E u \in Threads : op[u] = Op("read", i, a)

RaceGet(t, i, a) ==
    /\ Configured(prop[a])
    /\ RaceTarget(i, a)
    /\ Get(t, i, a)

NextRace ==
    \/ \E t \in Threads, i \in Instances, a \in Attrs : RaceGet(t, i, a)
    \/ \E t \in Threads : Acquire(t)
    \/ \E t \in Threads : Locked(t)
    \/ \E t \in Threads : FgetReturns(t)

SpecRace == InitRace /\ [][NextRace]_vars

(* ---------------------- steps, as seen from outside -------------------- *)
\* some thread started an operation in this step
Began == nops' = nops + 1

\* an operation finished in this step; its outcome is last'
Completed ==
    \/ Began /\ pc' = pc
    \/ \E t \in Threads : pc[t] # "idle" /\ pc'[t] = "idle"

\* a read of attribute a on instance i started in this step
ReadBegins(i, a) ==
    /\ Began
    /\ \/ pc' = pc /\ last'.op = Op("read", i, a)
       \/ \E t \in Threads : pc[t] = "idle" /\ pc'[t] = "await"
                                /\ op'[t] = Op("read", i, a)

\* a delete of attribute a on instance i ran in this step
Deletes(i, a) == Began /\ pc' = pc /\ last'.op = Op("delete", i, a)

(* ======================== composition adapters ========================= *)
\* most elements a list can hold: the memory available to the program
MaxLen == 3

Values == {1, 2}
Keys == {"a", "b"}
Indices == (0 - MaxLen - 1)..(MaxLen + 1)

\* stands for sys.maxsize: larger than every index of the program
maxsize == MaxLen + 2

(* ----------------------- the built-in list ----------------------------- *)
Value(v) == [kind |-> "value", val |-> v, exc |-> ""]
Raise(e) == [kind |-> "raise", val |-> <<>>, exc |-> e]

\* a negative index counts from the end
NormIndex(n, i) == IF i < 0 THEN i + n ELSE i
ValidIndex(n, i) == NormIndex(n, i) >= 0 /\ NormIndex(n, i) < n

\* slice-like clamping of the start/stop arguments of list.index
ClampIndex(n, i) ==
    IF i < 0 THEN (IF i + n < 0 THEN 0 ELSE i + n)
    ELSE (IF i > n THEN n ELSE i)

\* the list without the element at (0-based, valid) position j
WithoutAt(s, j) == SubSeq(s, 1, j) \o SubSeq(s, j + 2, Len(s))

Elements(s) == {s[k] : k \in 1..Len(s)}

list_contains(s, v) == v \in Elements(s)

list_getitem(s, i) ==
    IF ValidIndex(Len(s), i) THEN Value(<<s[NormIndex(Len(s), i) + 1]>>)
    ELSE Raise("IndexError")

list_reversed(s) == [k \in 1..Len(s) |-> s[Len(s) + 1 - k]]

list_index(s, v, start, stop) ==
    LET lo == ClampIndex(Len(s), start)
        hi == ClampIndex(Len(s), stop)
        hits == {k \in lo..(hi - 1) : s[k + 1] = v}
    IN  IF hits = {} THEN Raise("ValueError")
        ELSE Value(<<CHOOSE k \in hits : \A m \in hits : k <= m>>)

list_count(s, v) == Cardinality({k \in 1..Len(s) : s[k] = v})

(* ----------------------- the built-in dict ----------------------------- *)
DictKeys(d) == [k \in 1..Len(d) |-> d[k][1]]
HasKey(d, key) == \E k \in 1..Len(d) : d[k][1] = key
PosOfKey(d, key) == CHOOSE k \in 1..Len(d) : d[k][1] = key

dict_getitem(d, key) ==
    IF HasKey(d, key) THEN Value(<<d[PosOfKey(d, key)][2]>>) ELSE Raise("KeyError")

\* dict.get(key, default)
dict_get(d, key, default) ==
    IF HasKey(d, key) THEN Value(<<d[PosOfKey(d, key)][2]>>) ELSE Value(<<default>>)

\* d[key] = v: a present key keeps its place, a new key goes last
dict_setitem(d, key, v) ==
    IF HasKey(d, key) THEN [d EXCEPT ![PosOfKey(d, key)] = <<key, v>>]
    ELSE Append(d, <<key, v>>)

dict_delitem(d, key) == WithoutAt(d, PosOfKey(d, key) - 1)

(* ------------------- the adapter and its container --------------------- *)
\* `self._object_value_`: the container itself, never a copy of it
object_value_copied(c) == <<>>
object_value(c) == c

IsSequence == adapter = "Arrayed"
IsMapping == adapter = "Mapped"

\* the step taken last: operation, arguments, outcome
Step(o, args, r) ==
    [op |-> o, args |-> args, kind |-> r.kind, val |-> r.val, exc |-> r.exc,
     self |-> FALSE, selfarg |-> FALSE,
     iterated |-> (res.iterated \/ (IsMapping /\ res.op = "iter")),
     prior |-> IF IsMapping /\ res.op = "iter" THEN res.val ELSE res.prior]

\* a whole call of the adapter or of the container runs between two calls
Idle == adapter # "none" /\ ~iter.active

\* a read that takes the elements out of the container as it goes
ReadDraining(o, args, r) ==
    /\ Idle
    /\ res' = Step(o, args, r)
    /\ seq' = <<>>
    /\ map' = <<>>
    /\ UNCHANGED <<adapter, view, iter>>
    /\ UNCHANGED outsideAdapter

\* a read: only the outcome is new
Read(o, args, r) ==
    /\ Idle
    /\ res' = Step(o, args, r)
    /\ UNCHANGED <<adapter, seq, map, view, iter>>
    /\ UNCHANGED outsideAdapter

\* the program reads no lazy attribute: the descriptors are as declared
NoProperty ==
    /\ layout = [kind |-> [P |-> "dict", S |-> "dict"], members |-> {}]
    /\ prop = [a \in Attrs |-> CachedPropertyInit(DeclFget(a), DeclFdel(a), "")]
    /\ lock = [l \in LockIds |-> [owner |-> 0, count |-> 0]]
    /\ slot = [i \in Instances |-> [n \in SlotIds |-> Unset]]
    /\ calls = [i \in Instances |-> [a \in Attrs |-> 0]]
    /\ pc = [t \in Threads |-> "idle"]
    /\ op = [t \in Threads |-> NoOp]
    /\ last = NoResult
    /\ nops = 0

\* the program built an adapter around an empty list or an empty dict
InitAdapter ==
    /\ NoProperty
    /\ adapter \in {"Arrayed", "Mapped"}
    /\ seq = <<>>
    /\ map = <<>>
    /\ view = NoView
    /\ iter = NoIter
    /\ res = NoStep
    /\ NoRotate
    /\ NoStruct
    /\ NoEnum
    /\ NoDisabled
    /\ NoNested

(* ------------ ComposedContainer: __contains__, __iter__, __len__ ------- *)
Contains ==
    \/ IsSequence /\ \E v \in Values :
          Read("contains", <<v>>, Value(<<list_contains(object_value(seq), v)>>))
    \/ IsMapping /\ \E k \in Keys :
          Read("contains", <<k>>, Value(<<HasKey(object_value(map), k)>>))

\* iter(adapter), run to its end
Iterate ==
    \/ IsSequence /\ Read("iter", <<>>, Value(object_value(seq)))
    \/ IsMapping /\ Read("iter", <<>>, Value(DictKeys(object_value(map))))

LengthOfSet(c) == Cardinality(Elements(c))
LengthOf(c) == Len(c)

Length ==
    \/ IsSequence /\ Read("len", <<>>, Value(<<LengthOf(object_value(seq))>>))
    \/ IsMapping /\ Read("len", <<>>, Value(<<LengthOf(object_value(map))>>))

(* ---------------- Indexed: __getitem__, __reversed__, index, count ----- *)
IndexedGetItem(i) ==
    IsSequence /\ Read("getitem", <<i>>, list_getitem(object_value(seq), i))

Reversed ==
    IsSequence /\ Read("reversed", <<>>, Value(list_reversed(object_value(seq))))

Index(v, start, stop) ==
    IsSequence /\ Read("index", <<v, start, stop>>,
                       list_index(object_value(seq), v, start, stop))

Count(v) ==
    IsSequence /\ Read("count", <<v>>, Value(<<list_count(object_value(seq), v)>>))

(* ------------------------ Keyed: __getitem__, get ---------------------- *)
\* get(key): dict.get's own default is None
Defaults == {1, 9}
NoneValue == 0

KeyedGetItemOrNone(k) ==
    IsMapping /\ Read("getitem", <<k>>, dict_get(object_value(map), k, NoneValue))
KeyedGetItem(k) ==
    IsMapping /\ Read("getitem", <<k>>, dict_getitem(object_value(map), k))

GetRaising(k, default) ==
    IsMapping /\ Read("get", <<k, default>>, dict_getitem(object_value(map), k))
Get2(k, default) ==
    IsMapping /\ Read("get", <<k, default>>, dict_get(object_value(map), k, default))

Get1(k) ==
    IsMapping /\ Read("get", <<k>>, dict_get(object_value(map), k, NoneValue))

(* ---------------------- Mapped: keys, values, items -------------------- *)
ViewKinds == {"keys", "values", "items"}

\* collections.abc.KeysView / ValuesView / ItemsView .__iter__ over mapping d
ViewIter(kind, d) ==
    CASE kind = "keys" -> DictKeys(d)
      [] kind = "values" -> [k \in 1..Len(d) |-> dict_getitem(d, DictKeys(d)[k]).val[1]]
      [] kind = "items" ->
           [k \in 1..Len(d) |-> <<DictKeys(d)[k], dict_getitem(d, DictKeys(d)[k]).val[1]>>]

\* the view keeps the mapping it was given and reads it on every iteration
ViewContentsMaterialized(v, d) == IF v.iterated THEN v.first ELSE ViewIter(v.kind, d)
ViewContents(v, d) == ViewIter(v.kind, d)

\* keys(), values(), items(): a new view object of the mapping
MakeView(kind) ==
    /\ Idle /\ IsMapping
    /\ view' = [kind |-> kind, first |-> <<>>, iterated |-> FALSE]
    /\ res' = Step(kind, <<>>, Value(<<>>))
    /\ UNCHANGED <<adapter, seq, map, iter>>
    /\ UNCHANGED outsideAdapter

\* one full iteration of the view object the program holds
IterateView ==
    /\ Idle /\ IsMapping
    /\ view.kind # "none"
    /\ res' = Step("iterview", <<view.kind>>, Value(ViewContents(view, object_value(map))))
    /\ view' = IF view.iterated THEN view
                ELSE [view EXCEPT !.first = ViewContents(view, object_value(map)),
                                  !.iterated = TRUE]
    /\ UNCHANGED <<adapter, seq, map, iter>>
    /\ UNCHANGED outsideAdapter

(* ------------------ mutations applied to the container ----------------- *)
Direct(o, args, s, d) ==
    /\ Idle
    /\ res' = Step(o, args, Value(<<>>))
    /\ seq' = s
    /\ map' = d
    /\ UNCHANGED <<adapter, view, iter>>
    /\ UNCHANGED outsideAdapter

\* the owner appends to / pops from its list
DirectAppend(v) ==
    IsSequence /\ Len(seq) < MaxLen /\ Direct("direct", <<"append", v>>, Append(seq, v), map)

DirectPop ==
    IsSequence /\ Len(seq) > 0
    /\ Direct("direct", <<"pop">>, SubSeq(seq, 1, Len(seq) - 1), map)

\* the owner stores into / deletes from its dict
DirectStore(k, v) ==
    IsMapping /\ Direct("direct", <<"store", k, v>>, seq, dict_setitem(map, k, v))

DirectDelete(k) ==
    IsMapping /\ HasKey(map, k) /\ Direct("direct", <<"del", k>>, seq, dict_delitem(map, k))

(* ------------------- the built-in list: mutation ----------------------- *)
\* outcome r of a list method and the list c it leaves behind
Out(r, c) == [r |-> r, list |-> c]

list_setitem(s, i, v) ==
    IF ValidIndex(Len(s), i)
    THEN Out(Value(<<>>), [s EXCEPT ![NormIndex(Len(s), i) + 1] = v])
    ELSE Out(Raise("IndexError"), s)

list_delitem(s, i) ==
    IF ValidIndex(Len(s), i)
    THEN Out(Value(<<>>), WithoutAt(s, NormIndex(Len(s), i)))
    ELSE Out(Raise("IndexError"), s)

list_append(s, v) == Out(Value(<<>>), Append(s, v))

\* extend by a list: its elements are copied in one go
list_extend(s, x) == Out(Value(<<>>), s \o x)

\* insert clamps the index to the ends of the list
list_insert(s, i, v) ==
    LET j == ClampIndex(Len(s), i)
    IN  Out(Value(<<>>), SubSeq(s, 1, j) \o <<v>> \o SubSeq(s, j + 1, Len(s)))

list_pop(s, i) ==
    IF Len(s) = 0 \/ ~ValidIndex(Len(s), i) THEN Out(Raise("IndexError"), s)
    ELSE Out(Value(<<s[NormIndex(Len(s), i) + 1]>>), WithoutAt(s, NormIndex(Len(s), i)))

list_remove(s, v) ==
    IF list_index(s, v, 0, maxsize).kind = "raise" THEN Out(Raise("ValueError"), s)
    ELSE Out(Value(<<>>), WithoutAt(s, list_index(s, v, 0, maxsize).val[1]))

list_reverse(s) == Out(Value(<<>>), list_reversed(s))

(* ------------------------------ Arrayed -------------------------------- *)
\* lists handed to extend and to the combine operator
Lists == {<<>>} \cup {<<v>> : v \in Values} \cup {<<v, w>> : v, w \in Values}

\* a write through the adapter: the list method runs on the container
Write(o, args, out) ==
    /\ Idle
    /\ Len(out.list) <= MaxLen
    /\ res' = Step(o, args, out.r)
    /\ seq' = out.list
    /\ UNCHANGED <<adapter, map, view, iter>>
    /\ UNCHANGED outsideAdapter

SetItem(i, v) ==
    IsSequence /\ Write("setitem", <<i, v>>, list_setitem(object_value(seq), i, v))
DelItem(i) ==
    IsSequence /\ Write("delitem", <<i>>, list_delitem(object_value(seq), i))
ArrayedAppend(v) ==
    IsSequence /\ Write("append", <<v>>, list_append(object_value(seq), v))
Extend(x) ==
    IsSequence /\ Write("extend", <<x>>, list_extend(object_value(seq), x))
Insert(i, v) ==
    IsSequence /\ Write("insert", <<i, v>>, list_insert(object_value(seq), i, v))
Pop(i) ==
    IsSequence /\ Write("pop", <<i>>, list_pop(object_value(seq), i))
\* pop(): the index defaults to -1
PopFirst ==
    IsSequence /\ Write("pop", <<>>, list_pop(object_value(seq), 0))
PopLast ==
    IsSequence /\ Write("pop", <<>>, list_pop(object_value(seq), -1))
Remove(v) ==
    IsSequence /\ Write("remove", <<v>>, list_remove(object_value(seq), v))
Reverse ==
    IsSequence /\ Write("reverse", <<>>, list_reverse(object_value(seq)))

\* how the combine operator is written: A + x, x + A, A += x
CombineForms == {"add", "radd", "iadd"}

\* __add__ (= __radd__ = __iadd__): extend the container, return self
ReturnsSelf(r) == [r EXCEPT !.self = TRUE]

Combine(form, x) ==
    /\ Idle /\ IsSequence
    /\ Len(seq) + Len(x) <= MaxLen
    /\ res' = ReturnsSelf(Step(form, <<x>>, list_extend(object_value(seq), x).r))
    /\ seq' = list_extend(object_value(seq), x).list
    /\ UNCHANGED <<adapter, map, view, iter>>
    /\ UNCHANGED outsideAdapter

\* extend(A), A + A, A += A: the argument is the adapter, not a list, so
\* list.extend takes iter(A), a list iterator over the container itself
ExtendOps == {"extend"} \cup CombineForms

ExtendBySelf(o) ==
    /\ Idle /\ IsSequence
    /\ 2 * Len(seq) <= MaxLen
    /\ iter' = [active |-> TRUE, idx |-> 0, op |-> o, hint |-> Len(object_value(seq))]
    /\ res' = [Step(o, <<>>, Value(<<>>)) EXCEPT !.kind = "running", !.selfarg = TRUE]
    /\ UNCHANGED <<adapter, seq, map, view>>
    /\ UNCHANGED outsideAdapter

\* one round of list.extend's loop: next(iterator), then append the item.
\* The iterator stops when its index has reached the end of the list; an
\* append to a list that fills the memory raises MemoryError.
ExtendNext ==
    /\ iter.active
    /\ IF iter.idx >= Len(seq)
       THEN /\ res' = [Step(iter.op, <<>>, Value(<<>>)) EXCEPT
                          !.self = (iter.op \in CombineForms), !.selfarg = TRUE]
            /\ iter' = NoIter
            /\ seq' = seq
       ELSE IF Len(seq) >= MaxLen
       THEN /\ res' = [Step(iter.op, <<>>, Raise("MemoryError")) EXCEPT !.selfarg = TRUE]
            /\ iter' = NoIter
            /\ seq' = seq
       ELSE /\ seq' = Append(seq, seq[iter.idx + 1])
            /\ iter' = [iter EXCEPT !.idx = @ + 1]
            /\ res' = res
    /\ UNCHANGED <<adapter, map, view>>
    /\ UNCHANGED outsideAdapter

(* ------------------------- the adapter program ------------------------- *)
NextAdapter ==
    \/ Contains
    \/ Iterate
    \/ Length
    \/ \E i \in Indices : IndexedGetItem(i)
    \/ Reversed
    \/ \E v \in Values, start \in Indices, stop \in {0, 1, maxsize} : Index(v, start, stop)
    \/ \E v \in Values : Count(v)
    \/ \E k \in Keys : KeyedGetItem(k)
    \/ \E k \in Keys, d \in Defaults : Get2(k, d)
    \/ \E k \in Keys : Get1(k)
    \/ \E kind \in ViewKinds : MakeView(kind)
    \/ IterateView
    \/ \E v \in Values : DirectAppend(v)
    \/ DirectPop
    \/ \E k \in Keys, v \in Values : DirectStore(k, v)
    \/ \E k \in Keys : DirectDelete(k)
    \/ \E i \in Indices, v \in Values : SetItem(i, v)
    \/ \E i \in Indices : DelItem(i)
    \/ \E v \in Values : ArrayedAppend(v)
    \/ \E x \in Lists : Extend(x)
    \/ \E i \in Indices, v \in Values : Insert(i, v)
    \/ \E i \in Indices : Pop(i)
    \/ PopLast
    \/ \E v \in Values : Remove(v)
    \/ Reverse
    \/ \E form \in CombineForms, x \in Lists : Combine(form, x)
    \/ \E o \in ExtendOps : ExtendBySelf(o)
    \/ ExtendNext

SpecAdapter == InitAdapter /\ [][NextAdapter]_vars

(* ======================================================================= *)
(* rotate_array (src/utils.py)                                             *)
(* ======================================================================= *)
MaxArr == 3
MaxShift == 4
Elems == 1..MaxArr
Arrays == UNION {[1..n -> Elems] : n \in 0..MaxArr}
Shifts == (0 - MaxShift)..MaxShift

\* a % b of Python for b > 0: the result is in 0..b-1, also for a < 0
PyMod(a, b) == ((a % b) + b) % b

\* arr[i:j] for 0 <= i <= j <= len(arr)
Slice(s, i, j) == SubSeq(s, i + 1, j)

\* the rotated contents: arr[npos:arr_len] + arr[:npos] with npos = -npos % arr_len
Rotated(s, npos) ==
    LET arr_len == Len(s)
        n == PyMod(0 - npos, arr_len)
    IN  Slice(s, n, arr_len) \o Slice(s, 0, n)

\* a variant that rebinds the name arr to a new list instead of assigning to
\* the slice arr[:]
rotate_array_rebinding(s, npos) ==
    IF Len(s) = 0
    THEN [arr |-> s, returned |-> "arr", value |-> s]
    ELSE [arr |-> s, returned |-> "new", value |-> Rotated(s, npos)]
\* rotate_array(arr, npos): the contents of arr after the call, and the object
\* the call returns
rotate_array(s, npos) ==
    IF Len(s) = 0
    THEN [arr |-> s, returned |-> "arr", value |-> s]
    ELSE [arr |-> Rotated(s, npos), returned |-> "arr", value |-> Rotated(s, npos)]

\* the program holds a list
InitRotate ==
    /\ NoProperty
    /\ NoAdapter
    /\ NoStruct
    /\ NoEnum
    /\ NoDisabled
    /\ NoNested
    /\ \E s \in Arrays : rot = [NoCall EXCEPT !.arr = s, !.before = s]

\* rotate_array(arr, npos) on the list the program holds
Rotate(npos) ==
    /\ rot' = LET r == rotate_array(rot.arr, npos)
              IN  [arr |-> r.arr, before |-> rot.arr, npos |-> npos,
                   returned |-> r.returned, value |-> r.value]
    /\ UNCHANGED outsideRotate

NextRotate == \E npos \in Shifts : Rotate(npos)

SpecRotate == InitRotate /\ [][NextRotate]_vars

(* ======================================================================= *)
(* datastruct transform (src/py/datastruct.py)                             *)
(* ======================================================================= *)
MaxFields == 3
AllNames == <<"x", "y", "z", "w", "v">>
FieldNames == {AllNames[i] : i \in 1..(IF MaxFields < 5 THEN MaxFields ELSE 5)}
\* the annotated names of a class body, in order
FieldLists ==
    {f \in UNION {[1..n -> FieldNames] : n \in 0..MaxFields} :
        \A i, j \in 1..Len(f) : f[i] = f[j] => i = j}
\* the base of the class: object, or a plain class with __slots__ = ('x',)
Parents == {"object", "slotted"}
Unbound == <<"unbound">>

\* _slotted_members(cls) for a class that declares the slots own
slotted_members(own, parent) ==
    (IF own = NoSlots THEN <<>> ELSE own) \o (IF parent = "slotted" THEN <<"x">> ELSE <<>>)

\* tuple(s for s in chain(fields, ('__weakref__',))
\*       if s not in _slotted_members(cls)[len(class_slots):])
\* where class_slots is the local variable the statement assigns: Unbound
\* while the generator runs; the chain is never empty
class_slots_of(fields, slotted, class_slots) ==
    LET candidates == fields \o <<"__weakref__">>
    IN  IF class_slots = Unbound
        THEN Raise("NameError")
        ELSE LET rest == SubSeq(slotted, Len(class_slots) + 1, Len(slotted))
                 Keep(n) == \A k \in 1..Len(rest) : rest[k] # n
             IN  Value(SelectSeq(candidates, Keep))

\* DataStructType.__new__(mcls, name, bases, namespace) where
\*   flagged      '_struct_flag' in namespace
\*   declared     namespace['__slots__'], or NoSlots
\*   has_fields   FIELD_ATTR in namespace (and so in cls.__dict__)
\* The rebuilt class comes from the call mcls(name, bases, class_dict) with
\* the flag set, which returns the class type.__new__ made.
DataStructTypeNew(fields, parent, flagged, declared, has_fields) ==
    LET build_struct == ~flagged
    IN  IF ~build_struct \/ has_fields
        THEN Value(declared)
        ELSE LET r == class_slots_of(fields, slotted_members(declared, parent), Unbound)
             IN  IF r.kind = "raise" THEN r ELSE Value(r.val)

\* the outcome of a class statement on the transform
Made(via, fields, parent, predeclared, r) ==
    [via |-> via, fields |-> fields, parent |-> parent, predeclared |-> predeclared,
     kind |-> IF r.kind = "raise" THEN "raise" ELSE "class",
     exc |-> r.exc,
     slots |-> IF r.kind = "raise" THEN NoSlots ELSE r.val]

\* the program transforms no class yet
InitStruct ==
    /\ NoProperty
    /\ NoAdapter
    /\ NoRotate
    /\ NoStruct
    /\ NoEnum
    /\ NoDisabled
    /\ NoNested

\* @datastruct class C(parent): <fields>, where predeclared says that the
\* class already holds FIELD_ATTR (it was made a dataclass before).
\* struct_transform: the body of its class DataStructType reads field_attr,
\* then DataStructType(...) runs __new__, then the del statement.
Decorate(fields, parent, predeclared) ==
    /\ struct' =
          IF struct.closure = "deleted"
          THEN [struct EXCEPT !.last =
                   Made("decorator", fields, parent, predeclared, Raise("NameError"))]
          ELSE LET r == DataStructTypeNew(fields, parent, FALSE, NoSlots, predeclared)
               IN  [closure |-> IF r.kind = "raise" THEN "bound" ELSE "deleted",
                    made |-> (struct.made \/ r.kind # "raise"),
                    last |-> Made("decorator", fields, parent, predeclared, r)]
    /\ UNCHANGED outsideStruct

\* class D(C): <fields>, where C is a class made by the transform: the
\* metaclass of C runs __new__ for D
Subclass(fields) ==
    /\ struct.made
    /\ struct' = [struct EXCEPT !.last =
          Made("inheritance", fields, "object", FALSE,
               DataStructTypeNew(fields, "object", FALSE, NoSlots, FALSE))]
    /\ UNCHANGED outsideStruct

NextStruct ==
    \/ \E f \in FieldLists, p \in Parents, d \in BOOLEAN : Decorate(f, p, d)
    \/ \E f \in FieldLists : Subclass(f)

SpecStruct == InitStruct /\ [][NextStruct]_vars

(* ======================================================================= *)
(* MultiEnum (src/py/abstract.py)                                          *)
(* ======================================================================= *)
MaxMembers == 2
MaxAliases == 1
MaxLookups == 3
NumConsts == 3
Consts == 1..NumConsts
AliasLists == UNION {[1..n -> Consts] : n \in 0..MaxAliases}

\* `v in cache` for the alias map m (<<>>: the map was just made)
InCache(m, v) == m # <<>> /\ m[v] # Absent
\* cache[v] = x
CacheSet(m, v, x) ==
    [c \in Consts |-> IF c = v THEN x ELSE IF m = <<>> THEN Absent ELSE m[c]]

\* the loop `for v in _consts` of __new__ from position k: the aliases kept
\* and the alias map, or ValueError
RECURSIVE ScanConsts(_, _, _, _, _)
ScanConsts(value, consts, k, aliases, m) ==
    IF k > Len(consts)
    THEN [kind |-> "value", aliases |-> aliases, alias |-> m]
    ELSE IF value = consts[k]
    THEN ScanConsts(value, consts, k + 1, aliases, m)
    ELSE IF InCache(m, consts[k])
    THEN [kind |-> "raise", aliases |-> aliases, alias |-> m]
    ELSE ScanConsts(value, consts, k + 1, Append(aliases, consts[k]),
                    CacheSet(m, consts[k], NoMember))

\* MultiEnum.__new__(cls, value, *consts) on the alias map m
MultiEnumNew(m, value, consts) ==
    ScanConsts(value, consts, 1, <<>>, IF m = <<>> THEN CacheSet(m, 1, Absent) ELSE m)

\* the index of the member whose _value_ is v, or NoMember (the map
\* _value2member_map_ of enum.Enum)
ByValue(members, v) ==
    IF \E i \in 1..Len(members) : members[i].value = v
    THEN CHOOSE i \in 1..Len(members) : members[i].value = v
    ELSE NoMember

\* c is in member._values_
HasAlias(member, c) == \E k \in 1..Len(member.values) : member.values[k] = c

\* the loops of _missing_ over cls.__members__ and member._values_: the
\* later member wins
Filled(members, m) ==
    [c \in Consts |->
        IF \E i \in 1..Len(members) : HasAlias(members[i], c)
        THEN CHOOSE i \in 1..Len(members) :
                /\ HasAlias(members[i], c)
                /\ \A j \in (i + 1)..Len(members) : ~HasAlias(members[j], c)
        ELSE m[c]]

\* a class statement of a MultiEnum begins
InitEnum ==
    /\ NoProperty
    /\ NoAdapter
    /\ NoRotate
    /\ NoStruct
    /\ NoEnum
    /\ NoDisabled
    /\ NoNested

\* the class statement reaches `NAME = value, *consts`: __new__ runs, then
\* enum.Enum makes NAME a member, or another name of the member that has
\* the same _value_
NewMember(value, consts) ==
    /\ menum.phase = "creating"
    /\ Len(menum.members) < MaxMembers
    /\ LET r == MultiEnumNew(menum.alias, value, consts)
       IN  menum' =
             IF r.kind = "raise"
             THEN [menum EXCEPT !.phase = "rejected", !.marker = TRUE, !.alias = r.alias]
             ELSE [menum EXCEPT
                      !.marker = TRUE,
                      !.alias = r.alias,
                      !.members =
                          IF ByValue(menum.members, value) # NoMember
                          THEN menum.members
                          ELSE Append(menum.members,
                                      [value |-> value, values |-> r.aliases])]
    /\ UNCHANGED outsideEnum

\* the class statement ends
Created ==
    /\ menum.phase = "creating"
    /\ Len(menum.members) >= 1
    /\ menum' = [menum EXCEPT !.phase = "created"]
    /\ UNCHANGED outsideEnum

LookupEnds(t, c, kind, member, exc, missed) ==
    [menum EXCEPT
        !.look[t] = [pc |-> "idle", c |-> 0],
        !.last = [t |-> t, c |-> c, kind |-> kind, member |-> member, exc |-> exc,
                  missed |-> missed]]

\* thread t evaluates E(c): enum.Enum returns the member whose _value_ is c,
\* or calls _missing_(c)
Lookup(t, c) ==
    /\ menum.phase = "created"
    /\ menum.look[t].pc = "idle"
    /\ menum.nlook < MaxLookups
    /\ menum' =
          IF ByValue(menum.members, c) # NoMember
          THEN [LookupEnds(t, c, "return", ByValue(menum.members, c), "", FALSE)
                    EXCEPT !.nlook = menum.nlook + 1]
          ELSE [menum EXCEPT !.look[t] = [pc |-> "check", c |-> c],
                             !.nlook = menum.nlook + 1]
    /\ UNCHANGED outsideEnum

\* _missing_: if '0_SETUP' in cache
MissingCheck(t) ==
    /\ menum.look[t].pc = "check"
    /\ menum' = [menum EXCEPT !.look[t].pc = IF menum.marker THEN "fill" ELSE "get"]
    /\ UNCHANGED outsideEnum

\* _missing_: the loops that store every alias
MissingFill(t) ==
    /\ menum.look[t].pc = "fill"
    /\ menum' = [menum EXCEPT !.alias = Filled(menum.members, menum.alias),
                              !.look[t].pc = "del"]
    /\ UNCHANGED outsideEnum

\* _missing_: del cache['0_SETUP'], a KeyError when the key is not there
MissingDel(t) ==
    /\ menum.look[t].pc = "del"
    /\ menum' =
          IF menum.marker
          THEN [menum EXCEPT !.marker = FALSE, !.look[t].pc = "get"]
          ELSE LookupEnds(t, menum.look[t].c, "raise", NoMember, "KeyError", TRUE)
    /\ UNCHANGED outsideEnum

\* _missing_: return cache.get(value, None); enum.Enum raises ValueError for
\* None
MissingGet(t) ==
    /\ menum.look[t].pc = "get"
    /\ LET c == menum.look[t].c
           m == IF menum.alias[c] = Absent THEN NoMember ELSE menum.alias[c]
       IN  menum' =
             IF m = NoMember
             THEN LookupEnds(t, c, "raise", NoMember, "ValueError", TRUE)
             ELSE LookupEnds(t, c, "return", m, "", TRUE)
    /\ UNCHANGED outsideEnum

NextEnum ==
    \/ \E v \in Consts, a \in AliasLists : NewMember(v, a)
    \/ Created
    \/ \E t \in Threads, c \in Consts : Lookup(t, c)
    \/ \E t \in Threads : MissingCheck(t)
    \/ \E t \in Threads : MissingFill(t)
    \/ \E t \in Threads : MissingDel(t)
    \/ \E t \in Threads : MissingGet(t)

SpecEnum == InitEnum /\ [][NextEnum]_vars

(* ======================================================================= *)
(* _disabled_descriptor (src/abstract.py, src/py/abstract.py)              *)
(* ======================================================================= *)
MaxUses == 3

InitDisabled ==
    /\ NoProperty
    /\ NoAdapter
    /\ NoRotate
    /\ NoStruct
    /\ NoEnum
    /\ NoDisabled
    /\ NoNested

\* thread t evaluates _disabled_descriptor(cls, attrib): __init__ makes the
\* object and its own threading.Lock()
Disable(t) ==
    /\ desc.use[t].pc = "idle"
    /\ desc.uses < MaxUses
    /\ desc' = [desc EXCEPT !.use[t] = [pc |-> "made", value |-> NoValue, locked |-> FALSE],
                            !.uses = desc.uses + 1]
    /\ UNCHANGED outsideDisabled

\* disable: self._lock.acquire(), which waits while that lock is held
DisableAcquire(t) ==
    /\ desc.use[t].pc = "made"
    /\ ~desc.use[t].locked
    /\ desc' = [desc EXCEPT !.use[t].locked = TRUE, !.use[t].pc = "acquired"]
    /\ UNCHANGED outsideDisabled

\* disable: self.value = getattr(self.cls, self.attrib)
DisableSave(t) ==
    /\ desc.use[t].pc = "acquired"
    /\ desc' = [desc EXCEPT !.use[t].value = desc.attr, !.use[t].pc = "saved"]
    /\ UNCHANGED outsideDisabled

\* disable: setattr(self.cls, self.attrib, None); the body of the with
\* statement follows
DisableSet(t) ==
    /\ desc.use[t].pc = "saved"
    /\ desc' = [desc EXCEPT !.attr = Disabled, !.use[t].pc = "body"]
    /\ UNCHANGED outsideDisabled

\* enable: setattr(self.cls, self.attrib, self.value)
EnableRestore(t) ==
    /\ desc.use[t].pc = "body"
    /\ desc' = [desc EXCEPT !.attr = desc.use[t].value, !.use[t].pc = "restored"]
    /\ UNCHANGED outsideDisabled

\* enable: del self.value; self._lock.release()
EnableRelease(t) ==
    /\ desc.use[t].pc = "restored"
    /\ desc' = [desc EXCEPT !.use[t] = NoUse]
    /\ UNCHANGED outsideDisabled

NextDisabled ==
    \/ \E t \in Threads : Disable(t)
    \/ \E t \in Threads : DisableAcquire(t)
    \/ \E t \in Threads : DisableSave(t)
    \/ \E t \in Threads : DisableSet(t)
    \/ \E t \in Threads : EnableRestore(t)
    \/ \E t \in Threads : EnableRelease(t)

SpecDisabled == InitDisabled /\ [][NextDisabled]_vars

(* ======================================================================= *)
(* cachedproperty.__get__ with compute functions that read lazy attributes *)
(* ======================================================================= *)
\* The programs: in each, every compute function returns when it runs alone.
\*   independent   no compute function reads a lazy attribute
\*   ordered       x of an instance reads y of the same instance
\*   chained       x of an instance reads x of the next instance
\*   crossed       x of an odd instance reads y of that instance, y of an
\*                 even instance reads x of that instance
Programs == {"independent", "ordered", "chained", "crossed"}
NoRead == <<0, "">>

\* the lazy attribute that the compute function of a reads for instance i
Reads(program, i, a) ==
    CASE program = "ordered" /\ a = "Px" -> <<i, "Py">>
      [] program = "chained" /\ a = "Px" /\ i < NumInstances -> <<i + 1, "Px">>
      [] program = "crossed" /\ a = "Px" /\ i % 2 = 1 -> <<i, "Py">>
      [] program = "crossed" /\ a = "Py" /\ i % 2 = 0 -> <<i, "Px">>
      [] OTHER -> NoRead

Frame(i, a, at) == [inst |-> i, attr |-> a, pc |-> at]
Top(t) == nest.stack[t][Len(nest.stack[t])]
InFrame(t, at) == nest.stack[t] # <<>> /\ Top(t).pc = at
Moved(t, at) == [nest EXCEPT !.stack[t][Len(nest.stack[t])].pc = at]
Pushed(n, t, i, a) == [n EXCEPT !.stack[t] = Append(@, Frame(i, a, "await"))]
\* __get__ returns: the frame below, if any, goes on after its read
Popped(t) ==
    LET below == SubSeq(nest.stack[t], 1, Len(nest.stack[t]) - 1)
    IN  [nest EXCEPT !.stack[t] =
            IF below = <<>> THEN below ELSE [below EXCEPT ![Len(below)].pc = "body"]]

\* the classes are made (dict-backed, names derived) and a program is chosen
InitNested ==
    /\ layout = [kind |-> [P |-> "dict", S |-> "dict"], members |-> {}]
    /\ prop = [a \in Attrs |->
                  set_name(CachedPropertyInit(DeclFget(a), DeclFdel(a), ""),
                           DeclCls(a), AttrName(a))]
    /\ lock = [l \in LockIds |-> [owner |-> 0, count |-> 0]]
    /\ slot = [i \in Instances |-> [n \in SlotIds |-> Unset]]
    /\ calls = [i \in Instances |-> [a \in Attrs |-> 0]]
    /\ pc = [t \in Threads |-> "idle"]
    /\ op = [t \in Threads |-> NoOp]
    /\ last = NoResult
    /\ nops = 0
    /\ NoAdapter
    /\ NoRotate
    /\ NoStruct
    /\ NoEnum
    /\ NoDisabled
    /\ \E program \in Programs :
          nest = [program |-> program, stack |-> [t \in Threads |-> <<>>]]

\* lines 393-404: thread t, in no read, reads attribute a of instance i
NestedGet(t, i, a) ==
    /\ nest.stack[t] = <<>>
    /\ nops < MaxOps
    /\ nops' = nops + 1
    /\ nest' = IF FirstLook(i, a) # Unset THEN nest ELSE Pushed(nest, t, i, a)
    /\ UNCHANGED <<layout, prop, lock, slot, calls, pc, op, last>>
    /\ UNCHANGED outsideNested

\* line 405: `with self._lock:` waits until the lock can be taken
NestedAcquire(t) ==
    /\ InFrame(t, "await")
    /\ CanAcquire(LockOf(Top(t).attr), t)
    /\ lock' = Acquired(lock, LockOf(Top(t).attr), t)
    /\ nest' = Moved(t, "locked")
    /\ UNCHANGED <<layout, prop, slot, calls, pc, op, last, nops>>
    /\ UNCHANGED outsideNested

\* lines 407-410: look again; if still missing, call fget
NestedLocked(t) ==
    /\ InFrame(t, "locked")
    /\ IF SecondLook(Top(t).inst, Top(t).attr) # Unset
       THEN /\ lock' = Released(lock, LockOf(Top(t).attr))
            /\ nest' = Popped(t)
            /\ calls' = calls
       ELSE /\ calls' = [calls EXCEPT ![Top(t).inst][Top(t).attr] = @ + 1]
            /\ nest' = Moved(t, IF Reads(nest.program, Top(t).inst, Top(t).attr) = NoRead
                                THEN "body" ELSE "fget")
            /\ lock' = lock
    /\ UNCHANGED <<layout, prop, slot, pc, op, last, nops>>
    /\ UNCHANGED outsideNested

\* line 410: fget runs and reads the lazy attribute it depends on, which is
\* another call of __get__ by the same thread (lines 393-404)
NestedRead(t) ==
    /\ InFrame(t, "fget")
    /\ LET r == Reads(nest.program, Top(t).inst, Top(t).attr)
       IN  nest' = IF FirstLook(r[1], r[2]) # Unset
                   THEN Moved(t, "body")
                   ELSE Pushed(Moved(t, "inner"), t, r[1], r[2])
    /\ UNCHANGED <<layout, prop, lock, slot, calls, pc, op, last, nops>>
    /\ UNCHANGED outsideNested

\* lines 410, 415-416: fget returns; store, leave the `with` block, return
NestedReturn(t) ==
    /\ InFrame(t, "body")
    /\ slot' = Stored(Top(t).inst, Top(t).attr,
                      Computed(Top(t).attr, calls[Top(t).inst][Top(t).attr]))
    /\ lock' = Released(lock, LockOf(Top(t).attr))
    /\ nest' = Popped(t)
    /\ UNCHANGED <<layout, prop, calls, pc, op, last, nops>>
    /\ UNCHANGED outsideNested

\* a step of thread t inside a read
Runs(t) ==
    \/ NestedAcquire(t)
    \/ NestedLocked(t)
    \/ NestedRead(t)
    \/ NestedReturn(t)

NextNested ==
    \/ \E t \in Threads, i \in Instances, a \in ParentAttrs : NestedGet(t, i, a)
    \/ \E t \in Threads : NestedAcquire(t)
    \/ \E t \in Threads : NestedLocked(t)
    \/ \E t \in Threads : NestedRead(t)
    \/ \E t \in Threads : NestedReturn(t)

SpecNested == InitNested /\ [][NextNested]_vars

\* the scheduler runs every thread that can take a step: a thread that is
\* not waiting for a lock is never left out forever, and neither is a
\* thread whose lock stays free
FairNested == SpecNested /\ \A t \in Threads : WF_vars(Runs(t))

(* ------------------------------- claims -------------------------------- *)

\* C1: when the threads race to read one attribute of one instance whose slot
\* is Unset, the compute function is invoked at most once at any time and
\* exactly once as soon as a read has returned, and every read returns the
\* value of that single invocation.
C1_ComputeOnce ==
    /\ \A i \in Instances, a \in Attrs : calls[i][a] <= 1
    /\ last.op.kind = "read" =>
          /\ last.kind = "value"
          /\ last.val = Computed(last.op.attr, 1)
          /\ calls[last.op.inst][last.op.attr] = 1

\* a reader that waited for the lock and found the value computed meanwhile
C1_Witness ==
    /\ last.op.kind = "read" /\ last.path = "recheck"
    /\ nops >= 2
    /\ calls[last.op.inst][last.op.attr] = 1

C3_FailureIsNotCached ==
    [][ \A t \in Threads :
          /\ (pc[t] = "fget" /\ pc'[t] = "idle" /\ last'.kind = "raise") =>
                /\ slot' = slot
                /\ calls' = calls
                /\ lock'[LockOf(op[t].attr)] = [owner |-> 0, count |-> 0]
                /\ last'.op = op[t]
                /\ last'.exc \in UserExceptions /\ last'.origin = "user"
          /\ (pc[t] = "locked" /\ pc'[t] # "locked"
                /\ SlotOf(op[t].inst, op[t].attr) = Unset) =>
                /\ pc'[t] = "fget"
                /\ calls'[op[t].inst][op[t].attr] = calls[op[t].inst][op[t].attr] + 1
      ]_vars

\* the read after a failed read is computing again
C3_Witness ==
    \E t \in Threads :
        /\ pc[t] = "fget"
        /\ last.op = op[t] /\ last.kind = "raise" /\ last.origin = "user"
        /\ calls[op[t].inst][op[t].attr] = 2
        /\ SlotOf(op[t].inst, op[t].attr) = Unset

\* C4 as stated: a delete that returns normally on a Set slot leaves the
\* slot Unset.
C4_DeleteResetsSlot ==
    [][ \A i \in Instances, a \in Attrs :
          (Deletes(i, a) /\ Configured(prop[a]) /\ SlotOf(i, a) # Unset
              /\ last'.kind = "value") =>
              slot'[i][prop[a].name] = Unset
      ]_vars

\* C4 amended: delete only calls the configured deleter; the slot is Unset
\* afterwards exactly when that deleter cleared it, every other slot is left
\* alone, and with no deleter configured the delete fails with
\* AttributeError and changes nothing. A read that finds the slot Unset
\* under the lock invokes the compute function again.
C4_DeleteLeavesSlotToDeleter ==
    [][ /\ \A i \in Instances, a \in Attrs :
              (Deletes(i, a) /\ Configured(prop[a])) =>
                  /\ last'.old = SlotOf(i, a)
                  /\ prop[a].fdel = None =>
                        /\ slot' = slot
                        /\ last'.kind = "raise" /\ last'.exc = "AttributeError"
                        /\ last'.fdel = ""
                  /\ prop[a].fdel # None =>
                        /\ last'.fdel \in FdelBehaviours
                        /\ slot' = IF last'.fdel = "clear"
                                   THEN [slot EXCEPT ![i][prop[a].name] = Unset]
                                   ELSE slot
        /\ \A t \in Threads :
              (pc[t] = "locked" /\ pc'[t] # "locked"
                  /\ SlotOf(op[t].inst, op[t].attr) = Unset) =>
                  /\ pc'[t] = "fget"
                  /\ calls'[op[t].inst][op[t].attr] = calls[op[t].inst][op[t].attr] + 1
      ]_vars

\* a cached value was cleared by the deleter and the next read recomputes
C4_Witness ==
    \E t \in Threads :
        /\ pc[t] = "fget"
        /\ last.op = Op("delete", op[t].inst, op[t].attr)
        /\ last.old # Unset /\ last.fdel = "clear"
        /\ calls[op[t].inst][op[t].attr] = 2

\* C5 as stated: delete calls the configured release function exactly once,
\* with the old cached value as its argument.
C5_ReleaseGetsOldValue ==
    [][ \A i \in Instances, a \in Attrs :
          (Deletes(i, a) /\ Configured(prop[a]) /\ prop[a].fdel # None
              /\ SlotOf(i, a) # Unset) =>
              /\ last'.fdel # ""
              /\ last'.fdelArg = SlotOf(i, a)
      ]_vars

\* C5 amended: delete calls the configured deleter exactly once, with the
\* owning instance as its argument; with no deleter configured nothing is
\* called.
C5_DeleterGetsInstance ==
    [][ \A i \in Instances, a \in Attrs :
          Deletes(i, a) =>
              /\ prop[a].fdel # None =>
                    /\ last'.fdel \in FdelBehaviours
                    /\ last'.fdelArg = <<"inst", i>>
              /\ prop[a].fdel = None =>
                    /\ last'.fdel = ""
                    /\ last'.fdelArg = NoResult.fdelArg
      ]_vars

\* the deleter was called for an instance whose slot held a cached value
C5_Witness ==
    /\ last.op.kind = "delete"
    /\ last.fdel # "" /\ last.old # Unset
    /\ last.fdelArg = <<"inst", last.op.inst>>

\* C6: a read of an attribute whose setup never assigned the slot accessors
\* finishes at once with the RuntimeError of the descriptor; the compute
\* function is not invoked, nothing is stored and no lock is taken.
C6_ReadBeforeSetupFails ==
    [][ \A i \in Instances, a \in Attrs :
          (ReadBegins(i, a) /\ prop[a].getattr = "unset") =>
              /\ Completed
              /\ last'.op = Op("read", i, a)
              /\ last'.kind = "raise"
              /\ last'.exc = "RuntimeError" /\ last'.origin = "descriptor"
              /\ calls' = calls /\ slot' = slot /\ lock' = lock /\ pc' = pc
      ]_vars

\* such a read happened while another attribute was already set up
C6_Witness ==
    /\ last.op.kind = "read" /\ last.exc = "RuntimeError"
    /\ prop[last.op.attr].getattr = "unset"
    /\ \E b \in Attrs : prop[b].getattr # "unset"
    /\ \A i \in Instances : calls[i][last.op.attr] = 0

\* C7 as stated: a read of a lazy attribute never returns a value that the
\* compute function of another lazy attribute produced.
C7_NoForeignValue ==
    (last.op.kind = "read" /\ last.kind = "value") => last.val[1] = last.op.attr

\* C7 amended: the slot identifier is derived from the attribute name (and
\* the storage kind of the declaring class), not from the declaring class.
\* Two attributes of different names declared on one class without name=
\* have different slot identifiers, and a read never returns a value
\* computed by an attribute of another name; the attributes x of P and of S
\* have the same slot identifier when P and S have the same storage kind.
C7_SlotPerAttributeName ==
    /\ \A a, b \in Attrs :
          (Configured(prop[a]) /\ Configured(prop[b])
              /\ prop[a].given = "" /\ prop[b].given = "") =>
              /\ (DeclCls(a) = DeclCls(b) /\ AttrName(a) # AttrName(b)) =>
                    prop[a].name # prop[b].name
              /\ (AttrName(a) = AttrName(b)
                    /\ layout.kind[DeclCls(a)] = layout.kind[DeclCls(b)]) =>
                    prop[a].name = prop[b].name
    /\ (last.op.kind = "read" /\ last.kind = "value") =>
          AttrName(last.val[1]) = AttrName(last.op.attr)

\* x of P and y of P are cached side by side on one instance, and a read of
\* x of S returned the value computed by x of P
C7_Witness ==
    /\ last.op.kind = "read" /\ last.op.attr = "Sx"
    /\ last.val = Computed("Px", 1)
    /\ Configured(prop["Py"])
    /\ SlotOf(last.op.inst, "Py") = Computed("Py", 1)
    /\ SlotOf(last.op.inst, "Px") = Computed("Px", 1)

\* C8: an assignment fails with AttributeError and leaves every slot as it
\* was, and registering a setter fails with NotImplementedError and leaves
\* the descriptor as it was.
C8_ReadOnly ==
    [][ /\ (Completed /\ last'.op.kind = "set") =>
              /\ last'.kind = "raise" /\ last'.exc = "AttributeError"
              /\ slot' = slot /\ prop' = prop /\ calls' = calls
        /\ (Completed /\ last'.op.kind = "setter") =>
              /\ last'.kind = "raise" /\ last'.exc = "NotImplementedError"
              /\ slot' = slot /\ prop' = prop /\ calls' = calls
      ]_vars

\* an assignment to an attribute whose value is cached has just failed
C8_Witness ==
    /\ last.op.kind = "set" /\ last.kind = "raise"
    /\ SlotOf(last.op.inst, last.op.attr) = Computed(last.op.attr, 1)

C10_FastPathTakesNoLock ==
    [][ \A i \in Instances, a \in Attrs :
          (ReadBegins(i, a) /\ Configured(prop[a]) /\ SlotOf(i, a) # Unset) =>
              /\ Completed
              /\ last'.op = Op("read", i, a)
              /\ last'.kind = "value" /\ last'.val = SlotOf(i, a)
              /\ last'.path = "fast"
              /\ lock' = lock /\ pc' = pc /\ slot' = slot /\ calls' = calls
      ]_vars

\* the read returned while another thread held the attribute's lock, inside
\* the compute function for another instance
C10_Witness ==
    /\ last.op.kind = "read" /\ last.path = "fast" /\ last.held # 0
    /\ lock[LockOf(last.op.attr)].owner = last.held
    /\ pc[last.held] = "fget"
    /\ op[last.held].attr = last.op.attr
    /\ op[last.held].inst # last.op.inst

C12_OneComputePerAttribute ==
    [][ /\ \A t, u \in Threads :
              (t # u /\ pc'[t] = "fget" /\ pc'[u] = "fget") =>
                  op'[t].attr # op'[u].attr
        /\ \A i \in Instances, a \in Attrs :
              (ReadBegins(i, a) /\ Configured(prop[a]) /\ SlotOf(i, a) = Unset) =>
                  \E t \in Threads : pc[t] = "idle" /\ pc'[t] = "await"
        /\ \A t \in Threads :
              (pc[t] = "await" /\ pc'[t] # "await") =>
                  /\ pc'[t] = "locked"
                  /\ lock'[LockOf(op[t].attr)].owner = t
                  /\ \A u \in Threads \ {t} :
                        ~(pc[u] \in {"locked", "fget"} /\ op[u].attr = op[t].attr)
      ]_vars

\* a thread waits to read an attribute of one instance while another thread
\* computes the same attribute for another instance
C12_Witness ==
    \E t, u \in Threads :
        /\ pc[t] = "fget" /\ pc[u] = "await"
        /\ op[t].attr = op[u].attr /\ op[t].inst # op[u].inst
        /\ SlotOf(op[u].inst, op[u].attr) = Unset
        /\ lock[LockOf(op[t].attr)].owner = t

\* C13: an exception raised by the compute function on a read, or by the
\* deleter on a delete, is the exception the caller of that operation gets.
C13_UserExceptionsPassThrough ==
    [][ /\ \A t \in Threads :
              (pc[t] = "fget" /\ pc'[t] = "idle" /\ last'.kind = "raise") =>
                  /\ last'.op = op[t]
                  /\ last'.exc \in UserExceptions /\ last'.origin = "user"
        /\ \A i \in Instances, a \in Attrs :
              (Deletes(i, a) /\ last'.fdel \in UserExceptions) =>
                  /\ last'.kind = "raise"
                  /\ last'.exc = last'.fdel /\ last'.origin = "user"
      ]_vars

\* C14: whenever the length of the adapter has just been taken, it is the
\* number of elements (of keys, for a dict) the container holds, whatever
\* calls of the adapter and direct mutations of the container came before.
C14_LengthAgrees ==
    res.op = "len" =>
        /\ res.kind = "value"
        /\ IsSequence => res.val = <<Len(seq)>>
        /\ IsMapping => res.val = <<Cardinality({map[k][1] : k \in 1..Len(map)})>>

\* the adapter of a dict, which is only ever mutated directly, reports the
\* two keys stored since the adapter was built
C14_Witness ==
    /\ IsMapping
    /\ res.op = "len" /\ res.val = <<2>>
    /\ Len(map) = 2

\* the read operations of the adapters, as recorded in res.op
ReadOps == {"contains", "iter", "len", "getitem", "get", "index", "count",
            "reversed", "keys", "values", "items", "iterview"}

\* C15: a step that is a read operation of the adapter, successful or
\* failed, leaves the list and the dict as they were.
C15_ReadsChangeNothing ==
    [][ res'.op \in ReadOps => (seq' = seq /\ map' = map) ]_vars

\* an indexed read has just failed on a full list
C15_Witness ==
    /\ res.op = "getitem" /\ res.kind = "raise"
    /\ Len(seq) = MaxLen

\* C16: an indexed read of the list adapter returns the element at that
\* position, counted from the end for a negative index, and fails with
\* IndexError exactly for an index outside -n..n-1; a keyed read of the dict
\* adapter returns the value stored under the key and fails with KeyError
\* exactly for a key the dict does not hold.
C16_AccessAsContainer ==
    res.op = "getitem" =>
        /\ IsSequence =>
              LET i == res.args[1]
                  n == Len(seq)
              IN  IF 0 - n <= i /\ i < n
                  THEN /\ res.kind = "value"
                       /\ res.val = <<IF i >= 0 THEN seq[i + 1] ELSE seq[n + i + 1]>>
                  ELSE res.kind = "raise" /\ res.exc = "IndexError"
        /\ IsMapping =>
              LET k == res.args[1]
              IN  IF \E j \in 1..Len(map) : map[j][1] = k
                  THEN /\ res.kind = "value"
                       /\ \E j \in 1..Len(map) : map[j] = <<k, res.val[1]>>
                  ELSE res.kind = "raise" /\ res.exc = "KeyError"

\* a keyed read of a key that a dict holding another key does not have
C16_Witness ==
    /\ IsMapping
    /\ res.op = "getitem" /\ res.exc = "KeyError"
    /\ Len(map) = 1

\* C17: get(k, default) of the dict adapter never raises; it returns the
\* value stored under k when the dict holds k, and default (None when no
\* default was passed) when it does not.
C17_GetOrDefault ==
    res.op = "get" =>
        LET k == res.args[1]
            default == IF Len(res.args) = 2 THEN res.args[2] ELSE NoneValue
        IN  /\ res.kind = "value"
            /\ IF \E j \in 1..Len(map) : map[j][1] = k
               THEN \E j \in 1..Len(map) : map[j] = <<k, res.val[1]>>
               ELSE res.val = <<default>>

\* get returned the default for a key missing from a dict that holds another
C17_Witness ==
    /\ res.op = "get" /\ Len(res.args) = 2
    /\ Len(map) = 1 /\ map[1][1] # res.args[1]
    /\ res.kind = "value" /\ res.val = <<res.args[2]>>
    /\ res.args[2] # map[1][2]

\* C18: a write through the list adapter has, in the step in which it
\* returns, the effect of the list method of that name on the container:
\* set and delete by index (IndexError outside -n..n-1), append, extend by a
\* list, insert (index clamped to the ends), pop (default: the last element;
\* IndexError on an empty list or a bad index; returns the element taken
\* out), remove (first occurrence; ValueError if absent) and reverse. A
\* failed write leaves the list as it was.
C18_WritesPassThrough ==
    [][ LET s == seq
            n == Len(seq)
            r == res'
            Pos(i) == IF i >= 0 THEN i + 1 ELSE n + i + 1
            InRange(i) == 0 - n <= i /\ i < n
            Without(p) == [k \in 1..(n - 1) |-> IF k < p THEN s[k] ELSE s[k + 1]]
            Failed(e) == r.kind = "raise" /\ r.exc = e /\ seq' = s
            Done == r.kind = "value" /\ r.val = <<>>
        IN
        (~r.selfarg /\ r.kind # "running") =>
        /\ r.op = "setitem" =>
              IF InRange(r.args[1])
              THEN Done /\ seq' = [s EXCEPT ![Pos(r.args[1])] = r.args[2]]
              ELSE Failed("IndexError")
        /\ r.op = "delitem" =>
              IF InRange(r.args[1])
              THEN Done /\ seq' = Without(Pos(r.args[1]))
              ELSE Failed("IndexError")
        /\ r.op = "append" => Done /\ seq' = Append(s, r.args[1])
        /\ r.op = "extend" => Done /\ seq' = s \o r.args[1]
        /\ r.op = "insert" =>
              LET i == r.args[1]
                  j == IF i < 0 THEN (IF n + i < 0 THEN 0 ELSE n + i)
                       ELSE (IF i > n THEN n ELSE i)
              IN  /\ Done
                  /\ seq' = [k \in 1..(n + 1) |->
                               IF k <= j THEN s[k]
                               ELSE IF k = j + 1 THEN r.args[2] ELSE s[k - 1]]
        /\ r.op = "pop" =>
              LET i == IF r.args = <<>> THEN -1 ELSE r.args[1]
              IN  IF InRange(i)
                  THEN /\ r.kind = "value" /\ r.val = <<s[Pos(i)]>>
                       /\ seq' = Without(Pos(i))
                  ELSE Failed("IndexError")
        /\ r.op = "remove" =>
              IF \E k \in 1..n : s[k] = r.args[1]
              THEN /\ Done
                   /\ \E p \in 1..n :
                         /\ s[p] = r.args[1]
                         /\ \A k \in 1..(p - 1) : s[k] # r.args[1]
                         /\ seq' = Without(p)
              ELSE Failed("ValueError")
        /\ r.op = "reverse" =>
              Done /\ seq' = [k \in 1..n |-> s[n + 1 - k]]
      ]_vars

\* pop() through the adapter has just taken the last element off [1, 1, 2]
C18_Witness ==
    /\ res.op = "pop" /\ res.args = <<>>
    /\ res.kind = "value" /\ res.val = <<2>>
    /\ seq = <<1, 1>>

\* C19: when a combine operator of the list adapter (A + x, x + A, A += x)
\* has finished, it has returned the adapter itself and the container holds
\* the elements it held when the operator began followed by the elements x
\* had then (for x the adapter itself: its own elements, twice).
C19_CombineInPlace ==
    [][ (res'.op \in CombineForms /\ res'.kind # "running") =>
          /\ res'.kind = "value" /\ res'.self
          /\ ~res'.selfarg => seq' = seq \o res'.args[1]
          /\ res'.selfarg =>
                /\ Len(seq') = 2 * iter.hint
                /\ \A k \in 1..iter.hint : seq'[iter.hint + k] = seq'[k]
      ]_vars

\* C20: every iteration of a keys(), values() or items() view yields the
\* keys, the values or the items the dict holds at the time of that
\* iteration, in the dict's order, also when the dict was mutated after the
\* view was made or iterated before.
C20_ViewsAreLive ==
    res.op = "iterview" =>
        /\ res.kind = "value"
        /\ view.kind = res.args[1]
        /\ view.kind = "keys" => res.val = [k \in 1..Len(map) |-> map[k][1]]
        /\ view.kind = "values" => res.val = [k \in 1..Len(map) |-> map[k][2]]
        /\ view.kind = "items" => res.val = map

\* a values() view, iterated once, yields other values on a later iteration
\* because the dict was mutated in between
C20_Witness ==
    /\ res.op = "iterview" /\ view.kind = "values"
    /\ view.iterated /\ view.first # <<>>
    /\ res.val # view.first
    /\ Len(res.val) = Len(view.first)

\* C21: every run of iter(adapter) yields the elements (the keys, for a
\* dict) the container holds at the time of that run, in order, and every
\* containment test answers for the container as it is at that time, however
\* often they are repeated and whatever was done to the container before.
C21_ReadsAreCurrent ==
    /\ res.op = "iter" =>
          /\ res.kind = "value"
          /\ IsSequence => res.val = seq
          /\ IsMapping => res.val = [k \in 1..Len(map) |-> map[k][1]]
    /\ res.op = "contains" =>
          /\ res.kind = "value"
          /\ IsSequence => res.val = <<\E k \in 1..Len(seq) : seq[k] = res.args[1]>>
          /\ IsMapping => res.val = <<\E k \in 1..Len(map) : map[k][1] = res.args[1]>>

\* the adapter of a dict was iterated again after the owner had stored a
\* second key, and yields both keys where the run before yielded one
C21_Witness ==
    /\ IsMapping
    /\ res.op = "iter" /\ res.iterated
    /\ Len(res.prior) = 1 /\ Len(res.val) = 2
    /\ res.val[1] = res.prior[1]

\* C22: rotate_array(arr, npos) returns the list it was given; when the list
\* is empty it is unchanged, otherwise it has the length n it had and, for
\* every index i, the element that was at i is now at (i + npos) mod n.
C22_RotatesInPlace ==
    rot.returned # "none" =>
        /\ rot.returned = "arr"
        /\ rot.value = rot.arr
        /\ Len(rot.arr) = Len(rot.before)
        /\ \A i \in 0..(Len(rot.before) - 1) :
              rot.arr[PyMod(i + rot.npos, Len(rot.before)) + 1] = rot.before[i + 1]
\* a list of three distinct elements rotated by more than its length toward
\* the head: it changed
C22_Witness ==
    /\ rot.returned = "arr"
    /\ rot.before = <<1, 2, 3>>
    /\ rot.npos = 0 - 4
    /\ rot.arr = <<2, 3, 1>>

\* C23: a class statement that runs the datastruct transform, by the
\* decorator or by inheritance, makes a class, and the class declares
\* __slots__ with its fields and __weakref__ except those a parent slots.
C23_TransformedClassIsSlotted ==
    struct.last.kind # "none" =>
        /\ struct.last.kind = "class"
        /\ struct.last.slots =
              SelectSeq(struct.last.fields \o <<"__weakref__">>,
                        LAMBDA n : ~(struct.last.parent = "slotted" /\ n = "x"))

\* the constants of member i: its _value_ and its _values_
ConstsOf(i) ==
    {menum.members[i].value} \cup
    {menum.members[i].values[k] : k \in 1..Len(menum.members[i].values)}

\* C24: a value lookup by a constant c returns the member m, for every
\* member m that c is a constant of.
C24_LookupReturnsMember ==
    menum.last.kind # "none" =>
        \A i \in 1..Len(menum.members) :
            menum.last.c \in ConstsOf(i) =>
                menum.last.kind = "return" /\ menum.last.member = i

\* C25: in a MultiEnum whose class statement succeeded no constant belongs
\* to two members.
C25_ConstantsAreUnique ==
    menum.phase = "created" =>
        \A i, j \in 1..Len(menum.members) :
            i # j => ConstsOf(i) \cap ConstsOf(j) = {}

\* C29: a lookup by an additional constant that went through _missing_,
\* alone or together with the lookups of other threads, returns the member
\* that has the constant; once _missing_ has run and no lookup is running,
\* the alias map holds no marker and maps every additional constant to its
\* member.
C29_ConcurrentFirstLookup ==
    /\ (/\ menum.last.missed
        /\ \E i \in 1..Len(menum.members) : HasAlias(menum.members[i], menum.last.c))
          => /\ menum.last.kind = "return"
             /\ HasAlias(menum.members[menum.last.member], menum.last.c)
    /\ (/\ menum.last.missed
        /\ \A t \in Threads : menum.look[t].pc = "idle")
          => /\ ~menum.marker
             /\ \A i \in 1..Len(menum.members), c \in Consts :
                    HasAlias(menum.members[i], c) =>
                        /\ menum.alias[c] \in 1..Len(menum.members)
                        /\ HasAlias(menum.members[menum.alias[c]], c)

\* C30: no use of _disabled_descriptor saves the None another use placed,
\* and when every use has exited the attribute holds the value it had
\* before the first use.
C30_AttributeIsRestored ==
    /\ \A t \in Threads : desc.use[t].value # Disabled
    /\ (\A t \in Threads : desc.use[t].pc = "idle") => desc.attr = Original

\* C26: a read of an attribute whose __set_name__ has run and returned does
\* not end with the RuntimeError of the descriptor.
C26_ReadAfterSetupWorks ==
    [][ \A i \in Instances, a \in Attrs :
          (ReadBegins(i, a) /\ prop[a].setup = "ok") =>
              ~(/\ Completed
                /\ last'.kind = "raise"
                /\ last'.exc = "RuntimeError" /\ last'.origin = "descriptor")
      ]_vars

\* C28: extend and the combine operators end after as many rounds as the
\* argument had elements when the call began, also when the argument is the
\* adapter itself; they end by returning, and the container is then longer
\* by exactly that many elements.
C28_ExtendTerminates ==
    [][ /\ iter'.active => iter'.idx <= iter'.hint
        /\ (res'.op \in ExtendOps /\ res'.kind # "running") =>
              /\ res'.kind = "value"
              /\ ~res'.selfarg => Len(seq') = Len(seq) + Len(res'.args[1])
              /\ res'.selfarg => Len(seq') = 2 * iter.hint
      ]_vars

\* thread t waits for a lock that thread u holds
WaitsFor(t, u) ==
    /\ InFrame(t, "await")
    /\ lock[LockOf(Top(t).attr)].owner = u
    /\ u # t

\* C27: no set of threads is ever in a state where each of them waits for
\* an attribute lock that another of them holds, so that none of their reads
\* can return.
C27_NoLockCycle ==
    \A W \in SUBSET Threads :
        W # {} => \E t \in W : ~\E u \in W : WaitsFor(t, u)

====
